---- MODULE Spec2Model ----
(***************************************************************************)
(* Model of the asynchronous video generation service:                     *)
(*   app.py                        the job table video_results, the        *)
(*                                 /generate-video and /status handlers    *)
(*                                 and the background thread               *)
(*   video_generator_migration.py  VideoGenerator.create_vertical_video    *)
(* One thread per accepted submission runs generate_video_async.  A call   *)
(* of create_vertical_video reads and writes nothing but its own temporary *)
(* files, so it is the operator create_vertical_video, from the outcomes   *)
(* of the downloads and subprocesses to the result of the call, and one    *)
(* step of its thread; the statements of generate_video_async that follow  *)
(* it are steps of their own, interleaved with the request handlers, the   *)
(* other threads and the wall clock.                                       *)
(***************************************************************************)
EXTENDS Integers, Sequences, FiniteSets, TLC

\* ------------------------------------------------------------------ bounds
MaxSubmits == 2          \* accepted submissions (background threads)
MaxTime == 1             \* the wall clock runs over the seconds 0..MaxTime
MaxBytes == 1            \* the encoder's output is 0..MaxBytes bytes long
MaxUnlinkFailures == 1   \* os.unlink calls that raise during one cleanup
MaxDuration == 600       \* probed durations are 0..MaxDuration whole seconds
MaxDim == 8              \* image and target sides are 1..MaxDim pixels

\* ------------------------------------------------------- program constants
HashMod == 10000               \* app.py:176  hash(...) % 10000
FallbackDuration == 60         \* video_generator_migration.py:115
BaseTimeout == 300             \* video_generator_migration.py:119
SecondsPerUnit == 60           \* video_generator_migration.py:119
TimeoutPerUnit == 20           \* video_generator_migration.py:119

\* --------------------------------------------------------- values and URLs
\* A URL is a sequence of characters drawn from 1..3; Python's None is the
\* one-element sequence <<0>>, which no URL is, and "" is the empty sequence.
None == <<0>>
Empty == << >>

\* Python truthiness of a str-or-None value: `if v` / `not v`.
Truthy(v) == v # None /\ v # Empty

\* dict.get(key) of a JSON object, modelled as a function from its keys.
Get(d, k) == IF k \in DOMAIN d THEN d[k] ELSE None

\* dict.get(key, default)
GetDefault(d, k, default) == IF k \in DOMAIN d THEN d[k] ELSE default

\* The JSON object of a request body with these values; a None is a key
\* the body leaves out.
JsonBody(image_url, audio_url, music_url) ==
  LET keys == { k \in {"image_url", "audio_url", "background_music_url"} :
                  CASE k = "image_url" -> image_url # None
                    [] k = "audio_url" -> audio_url # None
                    [] OTHER -> music_url # None }
  IN [k \in keys |-> CASE k = "image_url" -> image_url
                       [] k = "audio_url" -> audio_url
                       [] OTHER -> music_url]

ImageURLs == {<<1, 2>>, <<2>>}
AudioURLs == {<<1>>}
MusicURLs == {None, <<3>>}

\* The requests POSTed to /generate-video: a body that is not JSON, an empty
\* JSON object, JSON objects with both URLs, and JSON objects in which a URL
\* is absent (None) or empty.
Requests ==
  {[is_json |-> FALSE, data |-> Empty], [is_json |-> TRUE, data |-> Empty]}
  \cup {[is_json |-> TRUE, data |-> JsonBody(i, a, m)] :
          i \in ImageURLs, a \in AudioURLs, m \in MusicURLs}
  \cup {[is_json |-> TRUE, data |-> JsonBody(i, a, <<3>>)] :
          i \in {None, Empty}, a \in AudioURLs}
  \cup {[is_json |-> TRUE, data |-> JsonBody(i, a, None)] :
          i \in ImageURLs, a \in {None, Empty}}

\* ------------------------------------------------------------- job identity
\* hash(s) of a str: fixed within one process, equal strings hash equally.
RECURSIVE StrHash(_)
StrHash(s) == IF s = Empty THEN 0
              ELSE (StrHash(SubSeq(s, 1, Len(s) - 1)) * 31 + s[Len(s)]) % 65536

\* f"{int(time.time())}_{hash(image_url + audio_url) % 10000}": the two
\* numbers of the identifier, which the text separates by "_".
JobId(seconds, image_url, audio_url) ==
  <<seconds, StrHash(image_url \o audio_url) % HashMod>>

\* f"video_{job_id}_{timestamp}.mp4", timestamp to the second.
Filename(job_id, timestamp) == <<job_id[1], job_id[2], timestamp>>

\* ------------------------------------------------------------ job records
ProcessingRecord ==
  [status |-> "processing", message |-> "Video generation in progress"]

\* the completed record with an error key left in it
CompletedRecord_WithError(filename, size, timestamp) ==
  [status |-> "completed", video_url |-> filename, file_size |-> size,
   timestamp |-> timestamp, error |-> None]

CompletedRecord(filename, size, timestamp) ==
  [status |-> "completed", video_url |-> filename, file_size |-> size,
   timestamp |-> timestamp]

FailedRecord(message) == [status |-> "failed", error |-> message]

\* d[k] = v of a dict
Put(d, k, v) == [x \in DOMAIN d \cup {k} |-> IF x = k THEN v ELSE d[x]]

\* ------------------------------------------------------------------- state
VARIABLES
  now,            \* the wall clock, in whole seconds
  video_results,  \* app.py:34  the job table: job id -> record
  threads,        \* the background threads, one per accepted submission
  tempfiles,      \* the temporary files on disk, each <<owner, kind>>
  static_videos,  \* static/videos: file name -> length of the file
  unlink_faults,  \* how many more os.unlink calls the file system will fail
  response,       \* the response of the last request handled
  call            \* one call looked at on its own: its inputs and its result

vars == <<now, video_results, threads, tempfiles, static_videos,
          unlink_faults, response, call>>

Threads == 1..MaxSubmits

NoData == -1    \* video_data not assigned

\* no exception in flight
NoExc == [type |-> "", msg |-> ""]

IdleThread ==
  [pc |-> "idle", image_url |-> None, audio_url |-> None,
   background_music_url |-> None, video_config |-> Empty, job_id |-> <<0, 0>>,
   video_data |-> NoData, exc |-> NoExc, timestamp |-> 0]

Init ==
  /\ now = 0
  /\ video_results = Empty
  /\ threads = [t \in Threads |-> IdleThread]
  /\ tempfiles = {}
  /\ static_videos = Empty
  /\ unlink_faults = 0
  /\ response = [route |-> "none", code |-> 0, body |-> Empty]
  /\ call = Empty

\* time passes
Tick ==
  /\ now < MaxTime
  /\ now' = now + 1
  /\ UNCHANGED <<video_results, threads, tempfiles, static_videos,
                 unlink_faults, response, call>>

\* ---------------------------------------------------------------- handlers
\* the check written with `and`: only a request that lacks both is refused
MissingURL_OnlyBoth(image_url, audio_url) ==
  ~Truthy(image_url) /\ ~Truthy(audio_url)

\* `if not image_url or not audio_url`
MissingURL(image_url, audio_url) == ~Truthy(image_url) \/ ~Truthy(audio_url)

\* the video_config the handler builds from the request body
VideoConfig(data) ==
  [width |-> GetDefault(data, "width", 720),
   height |-> GetDefault(data, "height", 1280),
   bitrate |-> GetDefault(data, "bitrate", "64k"),
   frame_rate |-> GetDefault(data, "frame_rate", 15),
   crf |-> GetDefault(data, "crf", 32),
   music_volume |-> GetDefault(data, "music_volume", <<6, 100>>)]

\* a 400 response: nothing but the response changes
Reject(message) ==
  /\ response' = [route |-> "generate-video", code |-> 400,
                  body |-> [error |-> message]]
  /\ UNCHANGED <<now, video_results, threads, tempfiles, static_videos,
                 unlink_faults, call>>

\* the thread object of threading.Thread(target=generate_video_async, args=...)
\* once started
StartedThread(image_url, audio_url, music_url, config, job_id) ==
  [IdleThread EXCEPT !.pc = "create_video", !.image_url = image_url,
                     !.audio_url = audio_url,
                     !.background_music_url = music_url,
                     !.video_config = config, !.job_id = job_id]

\* a handler that takes a submission only while no job is running
generate_video_Serialised(req) ==
  LET data == req.data
      image_url == Get(data, "image_url")
      audio_url == Get(data, "audio_url")
      music_url == Get(data, "background_music_url")
      job_id == JobId(now, image_url, audio_url)
  IN
  IF ~req.is_json THEN Reject("Content-Type must be application/json")
  ELSE IF DOMAIN data = {} THEN Reject("No JSON data provided")
  ELSE IF MissingURL(image_url, audio_url)
    THEN Reject("Both image_url and audio_url are required")
  ELSE \E t \in Threads :
    /\ \A u \in Threads : threads[u].pc \in {"idle", "done"}
    /\ threads[t].pc = "idle"
    /\ \A u \in Threads : u < t => threads[u].pc # "idle"
    /\ video_results' = Put(video_results, job_id, ProcessingRecord)
    /\ threads' = [threads EXCEPT ![t] =
         StartedThread(image_url, audio_url, music_url, VideoConfig(data), job_id)]
    /\ response' = [route |-> "generate-video", code |-> 202,
                    body |-> [job_id |-> job_id, status |-> "processing"]]
    /\ UNCHANGED <<now, tempfiles, static_videos, unlink_faults, call>>

\* POST /generate-video
generate_video(req) ==
  LET data == req.data
      image_url == Get(data, "image_url")
      audio_url == Get(data, "audio_url")
      music_url == Get(data, "background_music_url")
      job_id == JobId(now, image_url, audio_url)
  IN
  IF ~req.is_json THEN Reject("Content-Type must be application/json")
  ELSE IF DOMAIN data = {} THEN Reject("No JSON data provided")
  ELSE IF MissingURL(image_url, audio_url)
    THEN Reject("Both image_url and audio_url are required")
  ELSE \E t \in Threads :
    /\ threads[t].pc = "idle"
    /\ \A u \in Threads : u < t => threads[u].pc # "idle"
    /\ video_results' = Put(video_results, job_id, ProcessingRecord)
    /\ threads' = [threads EXCEPT ![t] =
         StartedThread(image_url, audio_url, music_url, VideoConfig(data), job_id)]
    /\ response' = [route |-> "generate-video", code |-> 202,
                    body |-> [job_id |-> job_id, status |-> "processing"]]
    /\ UNCHANGED <<now, tempfiles, static_videos, unlink_faults, call>>

\* the identifiers a client may ask about: every one a submission can get
QueryIds ==
  {JobId(s, i, a) : s \in 0..MaxTime, i \in ImageURLs, a \in AudioURLs}

\* a status query that drops a completed or failed record once it has
\* returned it
check_status_Evicting(job_id) ==
  /\ response' =
       IF job_id \notin DOMAIN video_results
       THEN [route |-> "status", code |-> 404, body |-> [error |-> "Job not found"]]
       ELSE [route |-> "status", code |-> 200, body |-> video_results[job_id]]
  /\ video_results' =
       IF job_id \in DOMAIN video_results
          /\ video_results[job_id].status \in {"completed", "failed"}
       THEN [j \in DOMAIN video_results \ {job_id} |-> video_results[j]]
       ELSE video_results
  /\ UNCHANGED <<now, threads, tempfiles, static_videos, unlink_faults, call>>

\* GET /status/<job_id>
check_status(job_id) ==
  /\ response' =
       IF job_id \notin DOMAIN video_results
       THEN [route |-> "status", code |-> 404, body |-> [error |-> "Job not found"]]
       ELSE [route |-> "status", code |-> 200, body |-> video_results[job_id]]
  /\ UNCHANGED <<now, video_results, threads, tempfiles, static_videos,
                 unlink_faults, call>>

\* ------------------------------------------------- create_vertical_video
\* what the world does to one call: each fetch succeeds or fails, ffprobe and
\* ffmpeg run as described below, and the os.unlink calls on the files named
\* in unlink_fail raise
Outcomes == {"ok", "fail"}

\* what ffprobe may print: a duration, nothing (it exited with an error), or
\* text that is no number
ProbeStdout == {"30", "", "N/A"}

\* subprocess.run(duration_cmd, ..., timeout=10): ffprobe returns with its
\* output, or exceeds the 10 seconds, or cannot be started
ProbeOutcomes ==
  {[raises |-> "", stdout |-> text] : text \in ProbeStdout}
  \cup {[raises |-> "TimeoutExpired", stdout |-> ""],
        [raises |-> "FileNotFoundError", stdout |-> ""]}

\* subprocess.run(ffmpeg_cmd, ..., timeout=timeout_seconds): ffmpeg exits 0
\* leaving size bytes in the output file, exits non-zero, or exceeds the
\* timeout
FFmpegOutcomes ==
  {[raises |-> "", returncode |-> 0, size |-> n] : n \in 0..MaxBytes}
  \cup {[raises |-> "", returncode |-> 1, size |-> 0],
        [raises |-> "TimeoutExpired", returncode |-> 0, size |-> 0]}

\* the temporary files of one call, by what they hold
TempKinds == {"image", "audio", "output", "music"}

Environments ==
  [image : Outcomes, process : Outcomes, audio : Outcomes,
   probe : ProbeOutcomes, music : Outcomes, ffmpeg : FFmpegOutcomes,
   unlink_fail : {S \in SUBSET TempKinds : Cardinality(S) <= MaxUnlinkFailures}]

\* float(text.strip()): whether it parses, and the number when it does
IsFloat(text) == text \in {"0", "30", "60", "600"}

FloatOf(text) ==
  CASE text = "0" -> 0 [] text = "30" -> 30 [] text = "60" -> 60
    [] text = "600" -> 600

\* the try/except around float(duration_result.stdout.strip())
AudioDuration(stdout) ==
  IF IsFloat(stdout) THEN FloatOf(stdout) ELSE FallbackDuration

\* a timeout that counts 20 seconds for every whole minute only
TimeoutSeconds_WholeMinutes(audio_duration) ==
  BaseTimeout + (audio_duration \div SecondsPerUnit) * TimeoutPerUnit

\* int(300 + (audio_duration / 60) * 20), on durations of whole seconds: the
\* doubles give the integer part of the exact 300 + audio_duration / 3, since
\* an error in the last place of (audio_duration / 60) * 20 is either far
\* from an integer boundary or rounded away by the addition of 300
TimeoutSeconds(audio_duration) ==
  BaseTimeout + (audio_duration * TimeoutPerUnit) \div SecondsPerUnit

\* `except subprocess.TimeoutExpired` / `except Exception` at the end of
\* create_vertical_video: the exception that leaves the function
OuterHandler(exc) ==
  IF exc.type = "TimeoutExpired"
  THEN [type |-> "Exception", msg |-> "Video generation timed out"]
  ELSE [type |-> "Exception", msg |-> "Video generation failed: " \o exc.msg]

\* download_file's own handler: every failure leaves as this exception
DownloadFailed == [type |-> "Exception", msg |-> "Download failed: HTTP error"]

\* the frame of create_vertical_video before the probe has been parsed
NoLocals == [audio_duration |-> 0, timeout_seconds |-> 0]

\* how a call ends: the bytes it returns or the exception it raises, the
\* temporary files it leaves on disk, those of them whose os.unlink raised,
\* what it did in order, and the duration and timeout it computed
Result(video_data, exc, left, unlink_failed, events, locals) ==
  [video_data |-> video_data, exc |-> exc, left |-> left,
   unlink_failed |-> unlink_failed, events |-> events, locals |-> locals]

\* an exception raised outside the inner try: the outer handlers re-raise it
\* and the files written so far stay
RaiseOuter(exc, left, events) ==
  Result(NoData, OuterHandler(exc), left, {}, events, NoLocals)

\* a cleanup that lets the first os.unlink error out: the files stay and the
\* error replaces the outcome
Finally_UnlinkRaises(env, files, events, video_data, exc, locals) ==
  IF files \cap env.unlink_fail = {}
  THEN Result(video_data, IF exc = NoExc THEN NoExc ELSE OuterHandler(exc),
              {}, {}, events \o <<"unlink">>, locals)
  ELSE Result(NoData,
              OuterHandler([type |-> "Exception",
                            msg |-> "Permission denied: unlink"]),
              files, files \cap env.unlink_fail, events \o <<"unlink">>,
              locals)

\* a cleanup that runs only when the inner try ends without an exception
Finally_OnSuccessOnly(env, files, events, video_data, exc, locals) ==
  IF exc = NoExc
  THEN Result(video_data, NoExc, files \cap env.unlink_fail,
              files \cap env.unlink_fail, events \o <<"unlink">>, locals)
  ELSE Result(video_data, OuterHandler(exc), files, {}, events, locals)

\* the finally block: os.unlink on the image, audio and output paths and on
\* music_path when it is set, each failure swallowed; then the function
\* returns video_data, or the exception in flight goes to the outer handlers
Finally(env, files, events, video_data, exc, locals) ==
  LET failed == files \cap env.unlink_fail IN
  Result(video_data, IF exc = NoExc THEN NoExc ELSE OuterHandler(exc),
         failed, failed, events \o <<"unlink">>, locals)

\* an inner try that goes on without music when the music download fails
InnerTry_MusicOptional(background_music_url, env, files, events, locals) ==
  LET with_music == Truthy(background_music_url) /\ env.music = "ok"
      music_events == IF with_music THEN <<"download music", "write music">>
                      ELSE IF Truthy(background_music_url)
                      THEN <<"download music">> ELSE << >>
      all_files == files \cup (IF with_music THEN {"music"} ELSE {})
      encoded == events \o music_events \o <<"ffmpeg">>
  IN
  IF env.ffmpeg.raises = "TimeoutExpired"
  THEN Finally(env, all_files, encoded, NoData,
               [type |-> "TimeoutExpired", msg |-> "ffmpeg timed out"], locals)
  ELSE IF env.ffmpeg.returncode # 0
  THEN Finally(env, all_files, encoded, NoData,
               [type |-> "Exception",
                msg |-> "Video generation failed: ffmpeg stderr"], locals)
  ELSE Finally(env, all_files, encoded \o <<"read output">>,
               env.ffmpeg.size, NoExc, locals)

\* the inner try: the music download and its temporary file when a music URL
\* was given, the ffmpeg run, the check of its return code, and the read of
\* the output file
InnerTry(background_music_url, env, files, events, locals) ==
  LET with_music == Truthy(background_music_url)
      music_events == IF with_music THEN <<"download music", "write music">>
                      ELSE << >>
      all_files == files \cup (IF with_music THEN {"music"} ELSE {})
      encoded == events \o music_events \o <<"ffmpeg">>
  IN
  IF with_music /\ env.music = "fail"
  THEN Finally(env, files, events \o <<"download music">>, NoData,
               DownloadFailed, locals)
  ELSE IF env.ffmpeg.raises = "TimeoutExpired"
  THEN Finally(env, all_files, encoded, NoData,
               [type |-> "TimeoutExpired", msg |-> "ffmpeg timed out"],
               locals)
  ELSE IF env.ffmpeg.returncode # 0
  THEN Finally(env, all_files, encoded, NoData,
               [type |-> "Exception",
                msg |-> "Video generation failed: ffmpeg stderr"],
               locals)
  ELSE Finally(env, all_files, encoded \o <<"read output">>,
               env.ffmpeg.size, NoExc, locals)

\* VideoGenerator.create_vertical_video(image_url, audio_url,
\* background_music_url): the fetches and the image processing, the image and
\* audio temporary files, the duration probe and the parse of its output, the
\* output temporary file, then the inner try
create_vertical_video(background_music_url, env) ==
  LET fetched == <<"download image", "process image", "download audio">>
      probed == fetched \o <<"write image", "write audio", "ffprobe">>
      audio_duration == AudioDuration(env.probe.stdout)
  IN
  IF env.image = "fail"
  THEN RaiseOuter(DownloadFailed, {}, SubSeq(fetched, 1, 1))
  ELSE IF env.process = "fail"
  THEN RaiseOuter([type |-> "Exception",
                   msg |-> "Image processing error: cannot identify image"],
                  {}, SubSeq(fetched, 1, 2))
  ELSE IF env.audio = "fail"
  THEN RaiseOuter(DownloadFailed, {}, fetched)
  ELSE IF env.probe.raises = "TimeoutExpired"
  THEN RaiseOuter([type |-> "TimeoutExpired", msg |-> "ffprobe timed out"],
                  {"image", "audio"}, probed)
  ELSE IF env.probe.raises # ""
  THEN RaiseOuter([type |-> "Exception", msg |-> "No such file: ffprobe"],
                  {"image", "audio"}, probed)
  ELSE InnerTry(background_music_url, env, {"image", "audio", "output"},
                probed \o <<"create output">>,
                [audio_duration |-> audio_duration,
                 timeout_seconds |-> TimeoutSeconds(audio_duration)])

\* ---------------------------------------------------- generate_video_async
\* the thread takes a step that touches nothing but its own frame
Local(t, new) ==
  /\ threads' = [threads EXCEPT ![t] = new]
  /\ UNCHANGED <<now, video_results, tempfiles, static_videos,
                 unlink_faults, response, call>>

\* every way a call with the given music URL can end
CallResults ==
  [background_music_url \in MusicURLs |->
     {create_vertical_video(background_music_url, env) : env \in Environments}]

\* the frame of generate_video_async once the call has ended: video_data is
\* assigned, or the exception is on its way to the except clause
AfterCall(frame, result) ==
  IF result.exc = NoExc
  THEN [frame EXCEPT !.pc = "check_data", !.video_data = result.video_data]
  ELSE [frame EXCEPT !.pc = "except", !.exc = result.exc]

\* video_data = video_generator.create_vertical_video(...): the call returns
\* the bytes or raises into the handler of generate_video_async, and the
\* temporary directory keeps the files the call left
CreateVideo(t) ==
  /\ threads[t].pc = "create_video"
  /\ \E result \in CallResults[threads[t].background_music_url] :
       /\ Cardinality(result.unlink_failed) <= unlink_faults
       /\ unlink_faults' = unlink_faults - Cardinality(result.unlink_failed)
       /\ tempfiles' = tempfiles \cup {<<t, kind>> : kind \in result.left}
       /\ threads' = [threads EXCEPT ![t] = AfterCall(threads[t], result)]
  /\ UNCHANGED <<now, video_results, static_videos, response, call>>

\* a thread whose target has returned: it holds its arguments and frame no
\* longer; the model remembers which job it ran for
FinishedThread(job_id) == [IdleThread EXCEPT !.pc = "done", !.job_id = job_id]

\* a write that replaces the job table by the one entry of the thread
WriteResult_WholeTable(t, record) ==
  /\ video_results' = [j \in {threads[t].job_id} |-> record]
  /\ threads' = [threads EXCEPT ![t] = FinishedThread(threads[t].job_id)]
  /\ UNCHANGED <<now, tempfiles, static_videos, unlink_faults, response, call>>

\* a step of a thread that writes the job table
WriteResult(t, record) ==
  /\ video_results' = Put(video_results, threads[t].job_id, record)
  /\ threads' = [threads EXCEPT ![t] = FinishedThread(threads[t].job_id)]
  /\ UNCHANGED <<now, tempfiles, static_videos, unlink_faults, response, call>>

\* `if not video_data`: the failed record and return; otherwise os.makedirs,
\* which may raise, and the file name from utcnow()
CheckVideoData(t) ==
  /\ threads[t].pc = "check_data"
  /\ IF threads[t].video_data = 0
     THEN WriteResult(t, FailedRecord("Failed to generate video"))
     ELSE \/ Local(t, [threads[t] EXCEPT !.pc = "save", !.timestamp = now])
          \/ Local(t, [threads[t] EXCEPT !.pc = "except",
                          !.exc = [type |-> "Exception",
                                   msg |-> "Permission denied: static/videos"]])

\* with open(video_path, 'wb') as f: f.write(video_data): the file is
\* written whole; or open raises; or the write raises after open truncated it
SaveVideo(t) ==
  LET filename == Filename(threads[t].job_id, threads[t].timestamp)
      failed == [threads EXCEPT ![t].pc = "except",
                                ![t].exc = [type |-> "Exception",
                                            msg |-> "No space left on device"]]
  IN
  /\ threads[t].pc = "save"
  /\ \/ /\ static_videos' = Put(static_videos, filename, threads[t].video_data)
        /\ threads' = [threads EXCEPT ![t].pc = "store"]
     \/ /\ static_videos' = static_videos
        /\ threads' = failed
     \/ /\ \E written \in 0..(threads[t].video_data - 1) :
             static_videos' = Put(static_videos, filename, written)
        /\ threads' = failed
  /\ UNCHANGED <<now, video_results, tempfiles, unlink_faults, response, call>>

\* video_results[job_id] = {"status": "completed", ...}
StoreResult(t) ==
  /\ threads[t].pc = "store"
  /\ WriteResult(t, CompletedRecord(Filename(threads[t].job_id, threads[t].timestamp),
                                    threads[t].video_data, threads[t].timestamp))

\* the handler that logs the exception and writes nothing
HandleException_LogOnly(t) ==
  /\ threads[t].pc = "except"
  /\ Local(t, FinishedThread(threads[t].job_id))

\* except Exception as e: video_results[job_id] = {"status": "failed", ...}
HandleException(t) ==
  /\ threads[t].pc = "except"
  /\ WriteResult(t, FailedRecord(threads[t].exc.msg))

\* a step of one background thread
generate_video_async(t) ==
  \/ CreateVideo(t)
  \/ CheckVideoData(t)
  \/ SaveVideo(t)
  \/ StoreResult(t)
  \/ HandleException(t)

Next ==
  \/ Tick
  \/ \E req \in Requests : generate_video(req)
  \/ \E job_id \in QueryIds : check_status(job_id)
  \/ \E t \in Threads : generate_video_async(t)

Spec == Init /\ [][Next]_vars

\* the same service on a file system that fails up to MaxUnlinkFailures of
\* the os.unlink calls
CleanupInit ==
  /\ now = 0
  /\ video_results = Empty
  /\ threads = [t \in Threads |-> IdleThread]
  /\ tempfiles = {}
  /\ static_videos = Empty
  /\ unlink_faults = MaxUnlinkFailures
  /\ response = [route |-> "none", code |-> 0, body |-> Empty]
  /\ call = Empty

CleanupSpec == CleanupInit /\ [][Next]_vars

\* every started thread keeps running: the interpreter schedules each thread,
\* and every fetch and subprocess returns or hits its timeout
FairSpec == Spec /\ \A t \in Threads : WF_vars(generate_video_async(t))

\* ------------------------------------------- create_vertical_video, alone
\* one call with any music URL in any environment, not yet made
PipelineInit ==
  /\ now = 0
  /\ video_results = Empty
  /\ threads = [t \in Threads |-> IdleThread]
  /\ tempfiles = {}
  /\ static_videos = Empty
  /\ unlink_faults = 0
  /\ response = [route |-> "none", code |-> 0, body |-> Empty]
  /\ call \in [background_music_url : MusicURLs, env : Environments,
               returned : {FALSE},
               result : {Result(NoData, NoExc, {}, {}, << >>, NoLocals)}]

\* the call is made and ends
Invoke ==
  /\ ~call.returned
  /\ call' = [call EXCEPT !.returned = TRUE,
                !.result = create_vertical_video(call.background_music_url,
                                                 call.env)]
  /\ UNCHANGED <<now, video_results, threads, tempfiles, static_videos,
                 unlink_faults, response>>

PipelineSpec == PipelineInit /\ [][Invoke]_vars

\* ------------------------------------------------------ one job, end to end
\* the service before its first submission, with the music URL that the
\* submission will carry and the environment that its call will meet
JobInit ==
  /\ now = 0
  /\ video_results = Empty
  /\ threads = [t \in Threads |-> IdleThread]
  /\ tempfiles = {}
  /\ static_videos = Empty
  /\ unlink_faults = 0
  /\ response = [route |-> "none", code |-> 0, body |-> Empty]
  /\ call \in [background_music_url : MusicURLs, env : Environments,
               returned : {FALSE},
               result : {Result(NoData, NoExc, {}, {}, << >>, NoLocals)}]

\* the one submission: POST /generate-video with both URLs and that music URL
SubmitJob ==
  /\ threads[1].pc = "idle"
  /\ \E image_url \in ImageURLs, audio_url \in AudioURLs :
       generate_video([is_json |-> TRUE,
                       data |-> JsonBody(image_url, audio_url,
                                         call.background_music_url)])

\* the job's thread calls create_vertical_video in that environment
CallInJob ==
  /\ threads[1].pc = "create_video"
  /\ LET result == create_vertical_video(threads[1].background_music_url,
                                         call.env)
     IN
     /\ call' = [call EXCEPT !.returned = TRUE, !.result = result]
     /\ tempfiles' = tempfiles \cup {<<1, kind>> : kind \in result.left}
     /\ threads' = [threads EXCEPT ![1] = AfterCall(threads[1], result)]
  /\ UNCHANGED <<now, video_results, static_videos, unlink_faults, response>>

JobNext ==
  \/ SubmitJob
  \/ CallInJob
  \/ CheckVideoData(1)
  \/ SaveVideo(1)
  \/ StoreResult(1)
  \/ HandleException(1)

JobSpec == JobInit /\ [][JobNext]_vars

\* ------------------------------------------- the encoder timeout, alone
\* a probed duration of whole seconds, its timeout not yet computed
TimeoutInit ==
  /\ now = 0
  /\ video_results = Empty
  /\ threads = [t \in Threads |-> IdleThread]
  /\ tempfiles = {}
  /\ static_videos = Empty
  /\ unlink_faults = 0
  /\ response = [route |-> "none", code |-> 0, body |-> Empty]
  /\ call \in [audio_duration : 0..MaxDuration, planned : {FALSE},
               timeout_seconds : {0}]

\* timeout_seconds = int(300 + (audio_duration / 60) * 20)
PlanTimeout ==
  /\ ~call.planned
  /\ call' = [call EXCEPT !.planned = TRUE,
                !.timeout_seconds = TimeoutSeconds(call.audio_duration)]
  /\ UNCHANGED <<now, video_results, threads, tempfiles, static_videos,
                 unlink_faults, response>>

TimeoutSpec == TimeoutInit /\ [][PlanTimeout]_vars

\* ------------------------------------ process_image_for_vertical_video
\* among sides up to 10 pixels the double 9 / (9 / 7) alone falls short of
\* the whole number it stands for (it is 6.999...); no product does
ShortQuotients == {<<9, 9, 7>>}

\* int(new_height * target_ratio) with target_ratio = target_width /
\* target_height
IntProduct(side, target_width, target_height) ==
  (side * target_width) \div target_height

\* int(new_width / target_ratio)
IntQuotient(side, target_width, target_height) ==
  (side * target_height) \div target_width
    - (IF <<side, target_width, target_height>> \in ShortQuotients
       THEN 1 ELSE 0)

\* a crop that keeps the left or the upper end of the image
CropBox_FromOrigin(original_width, original_height, target_width, target_height) ==
  IF original_width * target_height > target_width * original_height
  THEN [left |-> 0, upper |-> 0,
        right |-> IntProduct(original_height, target_width, target_height),
        lower |-> original_height]
  ELSE [left |-> 0, upper |-> 0, right |-> original_width,
        lower |-> IntQuotient(original_width, target_width, target_height)]

\* the box handed to image.crop: original_ratio > target_ratio compares two
\* doubles that are equal or apart exactly as the fractions are
CropBox(original_width, original_height, target_width, target_height) ==
  IF original_width * target_height > target_width * original_height
  THEN LET new_height == original_height
           new_width == IntProduct(new_height, target_width, target_height)
           left == (original_width - new_width) \div 2
       IN [left |-> left, upper |-> 0, right |-> left + new_width,
           lower |-> new_height]
  ELSE LET new_width == original_width
           new_height == IntQuotient(new_width, target_width, target_height)
           top == (original_height - new_height) \div 2
       IN [left |-> 0, upper |-> top, right |-> new_width,
           lower |-> top + new_height]

Dims == 1..MaxDim

\* an image and a target size, the image not yet cropped
CropInit ==
  /\ now = 0
  /\ video_results = Empty
  /\ threads = [t \in Threads |-> IdleThread]
  /\ tempfiles = {}
  /\ static_videos = Empty
  /\ unlink_faults = 0
  /\ response = [route |-> "none", code |-> 0, body |-> Empty]
  /\ call \in [original_width : Dims, original_height : Dims,
               target_width : Dims, target_height : Dims, cropped : {FALSE},
               box : {[left |-> 0, upper |-> 0, right |-> 0, lower |-> 0]}]

\* image = image.crop(...)
CropImage ==
  /\ ~call.cropped
  /\ call' = [call EXCEPT !.cropped = TRUE,
                !.box = CropBox(call.original_width, call.original_height,
                                call.target_width, call.target_height)]
  /\ UNCHANGED <<now, video_results, threads, tempfiles, static_videos,
                 unlink_faults, response>>

CropSpec == CropInit /\ [][CropImage]_vars

\* ------------------------------------------------- the configuration of a job
ConfigFields ==
  {"width", "height", "bitrate", "frame_rate", "crf", "music_volume"}

\* the values a caller gives to the fields it specifies
GivenConfig ==
  [width |-> 480, height |-> 854, bitrate |-> "96k", frame_rate |-> 30,
   crf |-> 23, music_volume |-> <<1, 10>>]

\* the submissions with both URLs, no music, and any of the fields specified
ConfigRequests ==
  {[is_json |-> TRUE,
    data |-> [k \in {"image_url", "audio_url"} \cup fields |->
                IF k = "image_url" THEN <<1, 2>>
                ELSE IF k = "audio_url" THEN <<1>>
                ELSE GivenConfig[k]]] : fields \in SUBSET ConfigFields}

\* the config.get(key, default) lines of create_vertical_video: the values
\* the call works with (generate_video_async always passes a dict, so the
\* `if config is None` before them does nothing)
EffectiveConfig(config) ==
  [width |-> GetDefault(config, "width", 1080),
   height |-> GetDefault(config, "height", 1920),
   bitrate |-> GetDefault(config, "bitrate", "128k"),
   frame_rate |-> GetDefault(config, "frame_rate", 24),
   crf |-> GetDefault(config, "crf", 28),
   music_volume |-> GetDefault(config, "music_volume", <<6, 100>>)]

\* the service before its first submission, and the request it will get
ConfigInit ==
  /\ now = 0
  /\ video_results = Empty
  /\ threads = [t \in Threads |-> IdleThread]
  /\ tempfiles = {}
  /\ static_videos = Empty
  /\ unlink_faults = 0
  /\ response = [route |-> "none", code |-> 0, body |-> Empty]
  /\ call \in [request : ConfigRequests, used : {Empty}]

\* POST /generate-video with that request
SubmitConfigured ==
  /\ threads[1].pc = "idle"
  /\ generate_video(call.request)

\* the job's thread calls create_vertical_video with the video_config it was
\* started with
CallWithConfig ==
  /\ threads[1].pc = "create_video"
  /\ call' = [call EXCEPT !.used = EffectiveConfig(threads[1].video_config)]
  /\ \E result \in CallResults[threads[1].background_music_url] :
       /\ result.unlink_failed = {}
       /\ tempfiles' = tempfiles \cup {<<1, kind>> : kind \in result.left}
       /\ threads' = [threads EXCEPT ![1] = AfterCall(threads[1], result)]
  /\ UNCHANGED <<now, video_results, static_videos, unlink_faults, response>>

ConfigNext ==
  \/ SubmitConfigured
  \/ CallWithConfig
  \/ CheckVideoData(1)
  \/ SaveVideo(1)
  \/ StoreResult(1)
  \/ HandleException(1)

ConfigSpec == ConfigInit /\ [][ConfigNext]_vars

\* --------------------------------------- generate_video, by its statements
\* the frame of the request handler when no submission is being handled;
\* stored remembers the threads whose submission has written its record
NoRequest(stored) ==
  [pc |-> "idle", image_url |-> None, audio_url |-> None,
   background_music_url |-> None, video_config |-> Empty, job_id |-> <<0, 0>>,
   thread |-> 0, stored |-> stored]

\* a handler that starts the thread before it stores the initial status
After_StartFirst(statement) ==
  CASE statement = "validate" -> "start"
    [] statement = "start" -> "store"
    [] statement = "store" -> "respond"

\* the statement of generate_video that follows the given one: validation
\* and job_id, `video_results[job_id] = {...}`, thread.start(), the response
After(statement) ==
  CASE statement = "validate" -> "store"
    [] statement = "store" -> "start"
    [] statement = "start" -> "respond"

OrderInit ==
  /\ now = 0
  /\ video_results = Empty
  /\ threads = [t \in Threads |-> IdleThread]
  /\ tempfiles = {}
  /\ static_videos = Empty
  /\ unlink_faults = 0
  /\ response = [route |-> "none", code |-> 0, body |-> Empty]
  /\ call = NoRequest({})

\* the handler up to the job_id: a 400 response, or the frame of an accepted
\* submission with the thread object it is going to create
BeginSubmit(req) ==
  LET data == req.data
      image_url == Get(data, "image_url")
      audio_url == Get(data, "audio_url")
  IN
  /\ call.pc = "idle"
  /\ IF ~req.is_json THEN Reject("Content-Type must be application/json")
     ELSE IF DOMAIN data = {} THEN Reject("No JSON data provided")
     ELSE IF MissingURL(image_url, audio_url)
       THEN Reject("Both image_url and audio_url are required")
     ELSE \E t \in Threads :
       /\ threads[t].pc = "idle"
       /\ \A u \in Threads : u < t => threads[u].pc # "idle"
       /\ call' = [pc |-> After("validate"), image_url |-> image_url,
                   audio_url |-> audio_url,
                   background_music_url |-> Get(data, "background_music_url"),
                   video_config |-> VideoConfig(data),
                   job_id |-> JobId(now, image_url, audio_url),
                   thread |-> t, stored |-> call.stored]
       /\ UNCHANGED <<now, video_results, threads, tempfiles, static_videos,
                      unlink_faults, response>>

\* video_results[job_id] = {"status": "processing", ...}
StoreInitial ==
  /\ call.pc = "store"
  /\ video_results' = Put(video_results, call.job_id, ProcessingRecord)
  /\ call' = [call EXCEPT !.pc = After("store"),
                          !.stored = call.stored \cup {call.thread}]
  /\ UNCHANGED <<now, threads, tempfiles, static_videos, unlink_faults,
                 response>>

\* thread = threading.Thread(...); thread.start()
StartThread ==
  /\ call.pc = "start"
  /\ threads' = [threads EXCEPT ![call.thread] =
       StartedThread(call.image_url, call.audio_url, call.background_music_url,
                     call.video_config, call.job_id)]
  /\ call' = [call EXCEPT !.pc = After("start")]
  /\ UNCHANGED <<now, video_results, tempfiles, static_videos, unlink_faults,
                 response>>

\* return jsonify({"job_id": job_id, ...}), 202
Respond ==
  /\ call.pc = "respond"
  /\ response' = [route |-> "generate-video", code |-> 202,
                  body |-> [job_id |-> call.job_id, status |-> "processing"]]
  /\ call' = NoRequest(call.stored)
  /\ UNCHANGED <<now, video_results, threads, tempfiles, static_videos,
                 unlink_faults>>

OrderNext ==
  \/ Tick
  \/ \E req \in Requests : BeginSubmit(req)
  \/ StoreInitial
  \/ StartThread
  \/ Respond
  \/ \E t \in Threads : generate_video_async(t)

OrderSpec == OrderInit /\ [][OrderNext]_vars

\* ------------------------------------------------------------------ claims
Terminal == {"completed", "failed"}

Started(t) == threads[t].pc # "idle"

Running(t) == threads[t].pc \notin {"idle", "done"}

\* the thread makes its write to the job table in this step
Writes(t) == threads[t].pc # "done" /\ threads'[t].pc = "done"

HasResult(record) ==
  "video_url" \in DOMAIN record \/ "file_size" \in DOMAIN record

HasError(record) == "error" \in DOMAIN record

\* C1: a job record only ever goes from processing to completed or to failed,
\* and a completed or failed record never changes again.
C1_TerminalIsFinal ==
  [][\A j \in DOMAIN video_results :
       /\ j \in DOMAIN video_results'
       /\ video_results'[j].status # video_results[j].status
            => /\ video_results[j].status = "processing"
               /\ video_results'[j].status \in Terminal
       /\ video_results[j].status \in Terminal
            => video_results'[j] = video_results[j]]_vars

\* C2: any two accepted submissions, the same URLs at the same time included,
\* are given different job identifiers.
C2_DistinctJobIds ==
  \A t, u \in Threads :
    (t # u /\ Started(t) /\ Started(u)) => threads[t].job_id # threads[u].job_id

\* C3: a job entry is mutated once after its creation, by the one thread
\* launched for it: a thread's write finds the entry still processing, and no
\* other thread has written the same entry.
C3_SingleWriter ==
  [][\A t \in Threads :
       Writes(t) =>
         /\ video_results[threads[t].job_id].status = "processing"
         /\ \A u \in Threads \ {t} :
              ~(threads[u].pc = "done" /\ threads[u].job_id = threads[t].job_id)]_vars

\* C4: in every job record a result is present only when the status is
\* completed, an error only when it is failed, never both, and neither while
\* the status is processing.
C4_ResultErrorExclusive ==
  \A j \in DOMAIN video_results :
    LET record == video_results[j] IN
    /\ HasResult(record) => record.status = "completed"
    /\ HasError(record) => record.status = "failed"
    /\ ~(HasResult(record) /\ HasError(record))
    /\ record.status = "processing" => ~HasResult(record) /\ ~HasError(record)

\* a completed record and a failed record are in the table together
C4_Witness ==
  \E j, k \in DOMAIN video_results :
    /\ video_results[j].status = "completed" /\ HasResult(video_results[j])
    /\ video_results[k].status = "failed" /\ HasError(video_results[k])

\* the call of create_vertical_video has ended
Returned == call # Empty /\ call.returned

\* the call did this
Did(event) == \E i \in DOMAIN call.result.events : call.result.events[i] = event

\* C5: once an invocation of create_vertical_video has ended, on any path, no
\* temporary file it created remains (but for one whose removal itself failed).
C5_TempFilesRemoved ==
  Returned => call.result.left \subseteq call.result.unlink_failed

\* ffprobe could not be started, exceeded its 10 seconds, exited with an error
\* or printed what is no number
ProbeFailed(env) == env.probe.raises # "" \/ ~IsFloat(env.probe.stdout)

\* C6: a failed duration probe is a soft failure: the call that reached the
\* probe goes on with a duration of 60, invokes the encoder once the music (if
\* any) is fetched, and returns the video when the encoder succeeds.
C6_ProbeIsSoft ==
  (Returned /\ Did("ffprobe") /\ ProbeFailed(call.env)) =>
    LET music_ok == Truthy(call.background_music_url) => call.env.music = "ok"
        ffmpeg_ok == call.env.ffmpeg.raises = "" /\ call.env.ffmpeg.returncode = 0
    IN
    /\ call.result.locals.audio_duration = FallbackDuration
    /\ music_ok => Did("ffmpeg")
    /\ (music_ok /\ ffmpeg_ok) => call.result.exc = NoExc

\* C7: under fair scheduling of the threads every job that is processing
\* becomes completed or failed, and a thread that caught an exception ends
\* with its job marked failed.
C7_EventuallyTerminal ==
  /\ \A j \in QueryIds :
       (j \in DOMAIN video_results /\ video_results[j].status = "processing")
         ~> (j \in DOMAIN video_results /\ video_results[j].status \in Terminal)
  /\ [][\A t \in Threads :
          (threads[t].pc = "except" /\ Writes(t)) =>
            video_results'[threads[t].job_id] = FailedRecord(threads[t].exc.msg)]_vars

\* a job has been marked failed with the message of an exception that the
\* pipeline raised
C7_Witness ==
  \E j \in DOMAIN video_results :
    /\ video_results[j].status = "failed"
    /\ video_results[j].error = "Video generation timed out"

\* C8: a completed job's location names a persisted file whose length is the
\* recorded file_size and is positive, and no other job's record names it.
C8_CompletedIsPersisted ==
  \A j \in DOMAIN video_results :
    video_results[j].status = "completed" =>
      /\ video_results[j].video_url \in DOMAIN static_videos
      /\ static_videos[video_results[j].video_url] = video_results[j].file_size
      /\ video_results[j].file_size > 0
      /\ \A k \in DOMAIN video_results \ {j} :
           video_results[k].status = "completed"
             => video_results[k].video_url # video_results[j].video_url

\* image_url or audio_url is absent from the request or empty
LacksURL(req) ==
  \/ Get(req.data, "image_url") \in {None, Empty}
  \/ Get(req.data, "audio_url") \in {None, Empty}

\* C9: a submission that lacks image_url or audio_url is answered 400 and
\* leaves the job table and the threads as they were.
C9_InvalidRejected ==
  [][\A req \in Requests :
       (LacksURL(req) /\ generate_video(req)) =>
         /\ response'.code = 400
         /\ video_results' = video_results
         /\ threads' = threads]_vars

\* a submission without a URL has been answered
C9_Witness ==
  /\ response.code = 400
  /\ response.body.error = "Both image_url and audio_url are required"

\* some thread launched for the job has not made its write yet
PipelineUnfinished(j) ==
  \E t \in Threads : Running(t) /\ threads[t].job_id = j

\* C10: a status query answers 404 for an id that is not in the table,
\* processing without result or error for an id whose pipeline has not
\* finished, and never changes the table.
C10_StatusQuery ==
  [][\A j \in QueryIds :
       check_status(j) =>
         /\ video_results' = video_results
         /\ j \notin DOMAIN video_results => response'.code = 404
         /\ PipelineUnfinished(j) =>
              /\ response'.code = 200
              /\ response'.body.status = "processing"
              /\ ~HasResult(response'.body) /\ ~HasError(response'.body)]_vars

\* ffmpeg exited with a non-zero code or exceeded its timeout
EncoderAbnormal(env) == env.ffmpeg.raises # "" \/ env.ffmpeg.returncode # 0

AssetFailed ==
  \/ call.env.image = "fail"
  \/ Did("download audio") /\ call.env.audio = "fail"
  \/ Did("download music") /\ call.env.music = "fail"

\* the call did the first before the second
Precedes(first, second) ==
  \E i, j \in DOMAIN call.result.events :
    i < j /\ call.result.events[i] = first /\ call.result.events[j] = second

C13_TimeoutFormula ==
  call.planned =>
    LET duration == call.audio_duration
        timeout == call.timeout_seconds
    IN
    /\ 60 * (timeout - 300) <= 20 * duration
    /\ 20 * duration < 60 * (timeout - 300 + 1)
    /\ duration = 0 => timeout = 300
    /\ duration = 60 => timeout = 320
    /\ duration = 600 => timeout = 500
    /\ timeout >= 300
    /\ \A shorter \in 0..duration : TimeoutSeconds(shorter) <= timeout
    /\ \A text \in ProbeStdout :
         ~IsFloat(text) => TimeoutSeconds(AudioDuration(text)) = 320

\* the timeout of a duration that is no whole number of minutes is computed
C13_Witness ==
  call.planned /\ call.audio_duration = 59 /\ call.timeout_seconds = 319

\* originalRatio > targetRatio for the image and target of the call
Wider ==
  call.original_width * call.target_height
    > call.target_width * call.original_height

\* the pixels the crop trims from the left, right, upper and lower side
Trim ==
  [left |-> call.box.left, right |-> call.original_width - call.box.right,
   upper |-> call.box.upper, lower |-> call.original_height - call.box.lower]

\* the crop keeps the full height of a wider image and the full width of any
\* other, and the region it keeps lies within the image
OneAxisCropped ==
  /\ Wider => Trim.upper = 0 /\ Trim.lower = 0
  /\ ~Wider => Trim.left = 0 /\ Trim.right = 0
  /\ 0 <= call.box.left /\ call.box.left <= call.box.right
  /\ call.box.right <= call.original_width
  /\ 0 <= call.box.upper /\ call.box.upper <= call.box.lower
  /\ call.box.lower <= call.original_height

\* C14: the crop is on one axis, horizontal (full height kept) when
\* originalRatio > targetRatio and vertical (full width kept) otherwise, and
\* it trims equally many pixels from the two sides of that axis.
C14_CropCentered ==
  call.cropped =>
    /\ OneAxisCropped
    /\ Trim.left = Trim.right
    /\ Trim.upper = Trim.lower

\* C14, amended: the crop is on one axis as stated, and the trims on the two
\* sides of that axis are equal or the right or lower one is one pixel more.
C14_CropCenteredWithinOnePixel ==
  call.cropped =>
    /\ OneAxisCropped
    /\ Trim.right - Trim.left \in {0, 1}
    /\ Trim.lower - Trim.upper \in {0, 1}

\* a wider image has been cropped by an odd number of columns
C14_Witness ==
  /\ call.cropped /\ Wider
  /\ Trim.left = 1 /\ Trim.right = 2

\* C15: the pipeline of a job runs with every configuration field that the
\* caller specified unchanged, and with width 1080, height 1920, bitrate
\* "128k", frame rate 24, crf 28 and music volume 0.06 for the fields the
\* caller left out.
C15_DefaultConfig ==
  LET specified == [width |-> 1080, height |-> 1920, bitrate |-> "128k",
                    frame_rate |-> 24, crf |-> 28, music_volume |-> <<6, 100>>]
  IN
  call.used # Empty =>
    \A field \in ConfigFields :
      call.used[field] =
        IF field \in DOMAIN call.request.data
        THEN call.request.data[field]
        ELSE specified[field]

\* the submissions that carry both URLs
ValidRequests ==
  {req \in Requests : req.is_json /\ DOMAIN req.data # {} /\ ~LacksURL(req)}

\* C16: submit never waits for a pipeline: a valid submission can be handled
\* in every state, however many jobs are running (up to the threads of the
\* model), and handling it records the job, starts its thread at the first
\* statement, returns the identifier, and moves no other thread and no file.
C16_SubmitNeverBlocks ==
  /\ [](\A req \in ValidRequests :
          (\E t \in Threads : threads[t].pc = "idle")
            => ENABLED generate_video(req))
  /\ [][\A req \in ValidRequests :
          generate_video(req) =>
            \E t \in Threads :
              /\ threads[t].pc = "idle" /\ threads'[t].pc = "create_video"
              /\ \A u \in Threads \ {t} : threads'[u] = threads[u]
              /\ response'.code = 202
              /\ response'.body.job_id = threads'[t].job_id
              /\ video_results'[threads'[t].job_id] = ProcessingRecord
              /\ tempfiles' = tempfiles /\ static_videos' = static_videos]_vars

\* a submission has just been accepted while the thread of an earlier one is
\* between its call and its write
C16_Witness ==
  /\ response.code = 202
  /\ \E t, u \in Threads :
       /\ threads[t].pc \in {"check_data", "save", "store", "except"}
       /\ threads[u].pc = "create_video"
       /\ response.body.job_id = threads[u].job_id

Created ==
  {kind \in TempKinds :
     Did(CASE kind = "image" -> "write image" [] kind = "audio" -> "write audio"
           [] kind = "output" -> "create output" [] OTHER -> "write music")}

\* how the call would have ended had every os.unlink succeeded
CleanResult ==
  create_vertical_video(call.background_music_url,
                        [call.env EXCEPT !.unlink_fail = {}])

\* C18: a failed removal of a temporary file is swallowed: the call returns
\* the same bytes or raises the same error as it would without the failure,
\* every file whose removal did not fail is removed, and the job ends with
\* the record of that outcome: completed with those bytes, or failed with
\* the primary error.
C18_CleanupSwallowed ==
  (Returned /\ Did("unlink")) =>
    /\ call.result.video_data = CleanResult.video_data
    /\ call.result.exc = CleanResult.exc
    /\ tempfiles = {<<1, kind>> : kind \in Created \cap call.env.unlink_fail}
    /\ threads[1].pc = "done" =>
         LET record == video_results[threads[1].job_id] IN
         /\ record.status = "completed" =>
              record.file_size = CleanResult.video_data
         /\ (record.status = "failed" /\ CleanResult.exc # NoExc) =>
              record.error = CleanResult.exc.msg
         /\ CleanResult.exc # NoExc => record.status = "failed"

\* a job has ended completed although the removal of one of its temporary
\* files failed
C18_Witness ==
  /\ Returned /\ call.result.unlink_failed # {}
  /\ threads[1].pc = "done"
  /\ video_results[threads[1].job_id].status = "completed"

\* C19: the processing record of a submission is written before its thread
\* is started, so the thread's completed or failed write comes after that
\* processing write and is never overwritten by it, however soon the thread
\* finishes.
C19_ProcessingBeforeTerminal ==
  /\ [](\A t \in Threads : Started(t) => t \in call.stored)
  /\ [][\A t \in Threads : Writes(t) => t \in call.stored]_vars
  /\ [][call.stored' # call.stored => threads[call.thread].pc = "idle"]_vars

\* the thread of a submission has made its terminal write before the handler
\* of that submission has returned
C19_Witness ==
  /\ call.pc = "respond"
  /\ threads[call.thread].pc = "done"
  /\ video_results[call.job_id].status \in Terminal

\* C20: a step of a background thread changes no entry of the job table but
\* the one under the job id the thread was launched with: every entry under
\* another id stays in the table with its record as it was, whatever the
\* other threads are doing.
C20_WritesOwnEntryOnly ==
  [][\A t \in Threads :
       (Running(t) /\ threads'[t] # threads[t]) =>
         /\ DOMAIN video_results' = DOMAIN video_results
         /\ \A j \in DOMAIN video_results \ {threads[t].job_id} :
              video_results'[j] = video_results[j]]_vars

\* a thread has made its write while the job of another thread, under
\* another id, is still processing
C20_Witness ==
  \E t, u \in Threads :
    /\ threads[t].pc = "done" /\ Running(u)
    /\ threads[t].job_id # threads[u].job_id
    /\ video_results[threads[t].job_id].status \in Terminal
    /\ video_results[threads[u].job_id].status = "processing"
====
